---- MODULE Spec2Model ----
(***************************************************************************)
(* Model of Fetch_JIRA_Issues.py: the status-duration calculation          *)
(* (calculate_time_in_status) and the entry point's loop over the fetched  *)
(* issues.                                                                 *)
(*                                                                         *)
(* Time.  A timestamp string "YYYY-MM-DDTHH:MM:SS.ffffff+HHMM" is modelled *)
(* as a record [wall, off]: the wall-clock reading in whole hours since an *)
(* epoch and the UTC offset in whole hours.  strptime with %z yields an    *)
(* aware datetime; subtracting two aware datetimes compares instants, so   *)
(* the difference is taken on wall - off.  Durations are whole hours on    *)
(* this grid, so the division by 3600 is exact.                            *)
(*                                                                         *)
(* Dictionaries are functions whose DOMAIN is the key set.                 *)
(***************************************************************************)
EXTENDS Integers, Sequences, FiniteSets, TLC

\* ------------------------------------------------------------- bounds
MaxChanges == 2     \* field changes in one changelog
MaxTime == 1        \* latest wall-clock hour of a timestamp
MaxIssues == 2      \* issues on the fetched page

\* ------------------------------------------------------- program constants
SecondsPerHour == 3600

\* Python's None: the value of dict.get on an absent key (and of a JSON null).
None == "<None>"

\* The hardcoded initial workflow state.
ToDo == "To Do"

Statuses == {ToDo, "In Progress"}

\* Python truthiness of a str-or-None: None and "" are falsy.
Truthy(s) == s # None /\ s # ""

\* ------------------------------------------------------------ input domain
Offsets == {0, 1}
Timestamps == [wall : 0..MaxTime, off : Offsets]

\* A status change {field: "status", fromString, toString}; either key may be
\* absent, which .get turns into None.
StatusChanges == [field : {"status"}, fromString : {None, "In Progress"},
                  toString : Statuses \cup {None}]

\* A change of another field; it carries a toString as every change does.
OtherChanges == [field : {"assignee"}, fromString : {None},
                 toString : {"In Progress"}]

Changes == StatusChanges \cup OtherChanges

\* Changelogs with exactly n field changes whose timestamps are rendered in
\* the zone tz (one response renders all its timestamps in one zone): each
\* further change either joins the last entry or opens a new entry with its
\* own timestamp.
RECURSIVE HistoriesOfSize(_, _)
HistoriesOfSize(n, tz) ==
    IF n = 0 THEN {<< >>}
    ELSE LET prev == HistoriesOfSize(n - 1, tz)
             opened == {Append(h, [created |-> [wall |-> w, off |-> tz],
                                   items |-> <<c>>]) :
                          h \in prev, w \in 0..MaxTime, c \in Changes}
             joined == {[h EXCEPT ![Len(h)].items = Append(@, c)] :
                          h \in prev \ {<< >>}, c \in Changes}
         IN  opened \cup joined

Histories == UNION {HistoriesOfSize(n, tz) : n \in 0..MaxChanges, tz \in Offsets}

CreatedDates == {t \in Timestamps : t.wall = 0}

\* Readings of the system clock (datetime.now), as UTC hours.
Nows == 0..(MaxTime + 1)

\* ------------------------------------------------------------ datetime
\* datetime.strptime(s, "%Y-%m-%dT%H:%M:%S.%f%z"): an aware datetime.
Strptime(s) == [wall |-> s.wall, off |-> s.off]

\* datetime.now(tz): the clock reading n (UTC) expressed in the zone tz.
DatetimeNow(n, tz) == [wall |-> n + tz, off |-> tz]

\* (a - b).total_seconds() for aware datetimes.
TotalSeconds(a, b) == ((a.wall - a.off) - (b.wall - b.off)) * SecondsPerHour

\* (a - b).total_seconds() / 3600
HoursBetween(a, b) == TotalSeconds(a, b) \div SecondsPerHour

\* ------------------------------------------------------------ dict
EmptyDict == [k \in {} |-> 0]
DictGet(d, k, default) == IF k \in DOMAIN d THEN d[k] ELSE default
DictPut(d, k, v) == [x \in (DOMAIN d) \cup {k} |-> IF x = k THEN v ELSE d[x]]

RECURSIVE SumOver(_, _)
SumOver(d, keys) ==
    IF keys = {} THEN 0
    ELSE LET k == CHOOSE x \in keys : TRUE
         IN  d[k] + SumOver(d, keys \ {k})

\* sum(d.values())
SumValues(d) == SumOver(d, DOMAIN d)

\* ------------------------------------------------- calculate_time_in_status
\* InitialLocals without the implicit initial status.
InitialLocals_NoInitialStatus(created_date) ==
    [status_times   |-> EmptyDict,
     last_status    |-> None,
     last_timestamp |-> Strptime(created_date)]

\* The locals before the loop.
InitialLocals(created_date) ==
    [status_times   |-> EmptyDict,
     last_status    |-> ToDo,
     last_timestamp |-> Strptime(created_date)]

\* Accumulate that assigns the elapsed time instead of adding it.
Accumulate_Overwrite(loc, upto) ==
    IF Truthy(loc.last_status)
    THEN DictPut(loc.status_times, loc.last_status,
                 HoursBetween(upto, loc.last_timestamp))
    ELSE loc.status_times

\* status_times[last_status] = status_times.get(last_status, 0) + time_spent,
\* under the guard "if last_status and last_timestamp" (a datetime is truthy).
Accumulate(loc, upto) ==
    IF Truthy(loc.last_status)
    THEN DictPut(loc.status_times, loc.last_status,
                 DictGet(loc.status_times, loc.last_status, 0)
                   + HoursBetween(upto, loc.last_timestamp))
    ELSE loc.status_times

\* ProcessChange without the test on the field name.
ProcessChange_AnyField(loc, item, change) ==
    LET created == Strptime(item.created)
    IN  [status_times   |-> Accumulate(loc, created),
         last_status    |-> change.toString,
         last_timestamp |-> created]

\* ProcessChange that credits the elapsed time to the entry's fromString
\* when it has one.
ProcessChange_CreditFrom(loc, item, change) ==
    IF change.field = "status"
    THEN LET created     == Strptime(item.created)
             from_status == change.fromString
             credited    == IF Truthy(from_status) THEN from_status
                            ELSE loc.last_status
         IN  [status_times   |-> Accumulate([loc EXCEPT !.last_status = credited],
                                            created),
              last_status    |-> change.toString,
              last_timestamp |-> created]
    ELSE loc

\* One iteration of the inner loop, for the change `change` of the entry `item`.
ProcessChange(loc, item, change) ==
    IF change.field = "status"
    THEN LET created     == Strptime(item.created)
             from_status == change.fromString
             to_status   == change.toString
         IN  [status_times   |-> Accumulate(loc, created),
              last_status    |-> to_status,
              last_timestamp |-> created]
    ELSE loc

\* FinalBlock that leaves the open last interval out.
FinalBlock_NoLastInterval(loc, n) == loc.status_times

\* The block after the loop and the return value.
FinalBlock(loc, n) ==
    IF Truthy(loc.last_status)
    THEN Accumulate(loc, DatetimeNow(n, loc.last_timestamp.off))
    ELSE loc.status_times

\* The (item, change) pairs in the order the nested loops visit them.
RECURSIVE Flatten(_)
FlattenItem(item) == [m \in 1..Len(item.items) |-> [item |-> item, change |-> item.items[m]]]
Flatten(h) == IF h = << >> THEN << >> ELSE FlattenItem(Head(h)) \o Flatten(Tail(h))

RECURSIVE RunLoop(_, _)
RunLoop(loc, pairs) ==
    IF pairs = << >> THEN loc
    ELSE RunLoop(ProcessChange(loc, Head(pairs).item, Head(pairs).change), Tail(pairs))

\* The whole call, with the clock reading n.
calculate_time_in_status(h, created_date, n) ==
    FinalBlock(RunLoop(InitialLocals(created_date), Flatten(h)), n)

\* ------------------------------------------------------------ fetchers
\* What requests.get + raise_for_status + json() can produce: a decoded body,
\* or a RequestException (network failure, non-2xx status, rejected
\* credentials).
TransportFailure == [ok |-> FALSE, body |-> << >>]

\* Changelog bodies of the entry-point runs.
ChangelogBodies == {h \in Histories : Len(Flatten(h)) <= 1}
ChangelogResponses == {[ok |-> TRUE, body |-> h] : h \in ChangelogBodies}
                        \cup {TransportFailure}

IssueKeys == [n \in 1..MaxIssues |-> n]

\* The pages the search endpoint can return: the first n issues, each with
\* its creation timestamp.
IssuePages ==
    UNION {{[m \in 1..n |-> [key |-> IssueKeys[m], created |-> c[m]]] :
              c \in [1..n -> CreatedDates]} : n \in 0..MaxIssues}
IssueResponses == {[ok |-> TRUE, body |-> p] : p \in IssuePages}
                    \cup {TransportFailure}

\* A call's effect: the value it returns, or an exception leaving the call.
\* fetch_jira_issues: the except clause prints and returns [].
fetch_jira_issues(response) ==
    IF response.ok
    THEN [raised |-> FALSE, value |-> response.body]
    ELSE [raised |-> FALSE, value |-> << >>]

\* fetch_issue_history without the except clause: the exception leaves it.
fetch_issue_history_Unhandled(response) ==
    IF response.ok
    THEN [raised |-> FALSE, value |-> response.body]
    ELSE [raised |-> TRUE, value |-> << >>]

\* fetch_issue_history: the except clause prints and returns [].
fetch_issue_history(response) ==
    IF response.ok
    THEN [raised |-> FALSE, value |-> response.body]
    ELSE [raised |-> FALSE, value |-> << >>]

\* ------------------------------------------------------------ state
VARIABLES
    history,        \* the changelog: argument of the calculation
    created_date,   \* the issue's creation timestamp: argument
    clock,          \* what datetime.now reads during the calculation
    pc,             \* calculation: "loop" | "done"; "idle" outside a call
    k,              \* number of (item, change) pairs already visited
    locals,         \* status_times, last_status, last_timestamp
    outcome,        \* "running" | "returned" | the name of a raised error
    result,         \* the returned mapping (times_in_status)
    mpc,            \* entry point: "start" | "history" | "calculate" | "done"
                    \*   | "aborted"; "idle" when only the function is run
    issues,         \* the fetched issue list
    idx,            \* position of the for loop in issues
    requested,      \* issue keys whose changelog was requested, in order
    calculated,     \* issue keys whose durations were calculated, in order
    errors          \* issue keys whose changelog request failed

calcVars == <<created_date, clock, pc, k, locals, outcome>>
mainVars == <<mpc, issues, idx, requested, calculated, errors>>
vars == <<history, result, calcVars, mainVars>>

\* ---------------------------------------------- calculator specification
Init ==
    /\ history \in Histories
    /\ created_date \in CreatedDates
    /\ clock \in Nows
    /\ pc = "loop"
    /\ k = 0
    /\ locals = InitialLocals(created_date)
    /\ outcome = "running"
    /\ result = EmptyDict
    /\ mpc = "idle"
    /\ issues = << >>
    /\ idx = 0
    /\ requested = << >>
    /\ calculated = << >>
    /\ errors = {}

Pairs == Flatten(history)

\* An inner-loop iteration on a change with field == "status".
StatusChange ==
    /\ pc = "loop"
    /\ k < Len(Pairs)
    /\ Pairs[k + 1].change.field = "status"
    /\ locals' = ProcessChange(locals, Pairs[k + 1].item, Pairs[k + 1].change)
    /\ k' = k + 1
    /\ UNCHANGED <<history, created_date, clock, pc, outcome, result, mainVars>>

\* An inner-loop iteration on a change of another field.
OtherChange ==
    /\ pc = "loop"
    /\ k < Len(Pairs)
    /\ Pairs[k + 1].change.field # "status"
    /\ locals' = ProcessChange(locals, Pairs[k + 1].item, Pairs[k + 1].change)
    /\ k' = k + 1
    /\ UNCHANGED <<history, created_date, clock, pc, outcome, result, mainVars>>

\* The loops are exhausted: the final block, then return status_times.
Return ==
    /\ pc = "loop"
    /\ k = Len(Pairs)
    /\ result' = FinalBlock(locals, clock)
    /\ outcome' = "returned"
    /\ pc' = "done"
    /\ UNCHANGED <<history, created_date, clock, k, locals, mainVars>>

Next == StatusChange \/ OtherChange \/ Return

Spec == Init /\ [][Next]_vars

\* ---------------------------------------------- entry-point specification
MainInit ==
    /\ history = << >>
    /\ created_date = [wall |-> 0, off |-> 0]
    /\ clock = 0
    /\ pc = "idle"
    /\ k = 0
    /\ locals = InitialLocals(created_date)
    /\ outcome = "running"
    /\ result = EmptyDict
    /\ mpc = "start"
    /\ issues = << >>
    /\ idx = 0
    /\ requested = << >>
    /\ calculated = << >>
    /\ errors = {}

\* issues = fetch_jira_issues(...); "if issues:" enters the loop, else the
\* run prints "No issues found or an error occurred." and ends.
FetchIssues ==
    /\ mpc = "start"
    /\ \E response \in IssueResponses :
         LET call == fetch_jira_issues(response)
         IN  IF call.raised
             THEN /\ mpc' = "aborted"
                  /\ UNCHANGED <<issues, idx>>
             ELSE /\ issues' = call.value
                  /\ idx' = 1
                  /\ mpc' = IF call.value # << >> THEN "history" ELSE "done"
    /\ UNCHANGED <<history, result, calcVars, requested, calculated, errors>>

\* The loop body up to history = fetch_issue_history(...).
FetchHistory ==
    /\ mpc = "history"
    /\ \E response \in ChangelogResponses :
         LET call == fetch_issue_history(response)
         IN  /\ requested' = Append(requested, issues[idx].key)
             /\ errors' = IF response.ok THEN errors
                          ELSE errors \cup {issues[idx].key}
             /\ IF call.raised
                THEN /\ mpc' = "aborted"
                     /\ UNCHANGED history
                ELSE /\ history' = call.value
                     /\ mpc' = "calculate"
    /\ UNCHANGED <<result, calcVars, issues, idx, calculated>>

\* The rest of the loop body: times_in_status = calculate_time_in_status(
\* history, created_date), printed; then the next issue.
Calculate ==
    /\ mpc = "calculate"
    /\ \E n \in Nows :
         result' = calculate_time_in_status(history, issues[idx].created, n)
    /\ calculated' = Append(calculated, issues[idx].key)
    /\ idx' = idx + 1
    /\ mpc' = IF idx < Len(issues) THEN "history" ELSE "done"
    /\ UNCHANGED <<history, calcVars, issues, requested, errors>>

MainNext == FetchIssues \/ FetchHistory \/ Calculate

\* The run is one thread that keeps executing; every request returns or
\* raises.
MainSpec == MainInit /\ [][MainNext]_vars /\ WF_vars(MainNext)

\* ================================================================ claims
\* The instant (UTC hours) a timestamp denotes.
Instant(t) == t.wall - t.off

IsStatusPair(p) == p.change.field = "status"
StatusPairs == SelectSeq(Pairs, IsStatusPair)

\* The instants that bound the status intervals: createdAt, every status
\* change in changelog order, now.
Timeline ==
    <<Instant(created_date)>>
      \o [m \in 1..Len(StatusPairs) |-> Instant(StatusPairs[m].item.created)]
      \o <<clock>>

\* The running current status of each interval.
Running == <<ToDo>> \o [m \in 1..Len(StatusPairs) |-> StatusPairs[m].change.toString]

IntervalLength(m) == Timeline[m + 1] - Timeline[m]

RECURSIVE IntervalSumUpTo(_, _)
IntervalSumUpTo(s, m) ==
    IF m = 0 THEN 0
    ELSE IntervalSumUpTo(s, m - 1) + (IF Running[m] = s THEN IntervalLength(m) ELSE 0)

\* Total length of the intervals during which s was the running status.
IntervalSum(s) == IntervalSumUpTo(s, Len(Running))

\* Every status change carries a usable toValue.
UsableToValues ==
    \A m \in 1..Len(StatusPairs) : Truthy(StatusPairs[m].change.toString)

\* createdAt <= the status changes in ascending order.
StatusAscending ==
    \A m \in 1..Len(StatusPairs) : Timeline[m] <= Timeline[m + 1]

\* No elapsed time is negative: ascending, and now not before the last one.
NoNegativeElapsed ==
    \A m \in 1..(Len(Timeline) - 1) : Timeline[m] <= Timeline[m + 1]

ValidInput == UsableToValues /\ NoNegativeElapsed

\* C1 (conservation): for every valid input the values of the returned
\* mapping sum to now - createdAt, in hours.
C1_Conservation ==
    (pc = "done" /\ ValidInput)
        => SumValues(result) = clock - Instant(created_date)

C1_Witness ==
    /\ pc = "done"
    /\ ValidInput
    /\ Len(StatusPairs) >= 2
    /\ Cardinality(DOMAIN result) = 2
    /\ \A m \in 1..Len(Running) : IntervalLength(m) > 0

\* C2 (negative-interval rejection), as claimed: a call in which some
\* elapsed time is negative ends with InvalidInterval and returns no mapping.
C2_RejectsNegativeInterval ==
    (pc = "done" /\ ~NoNegativeElapsed) => outcome = "InvalidInterval"

\* C3 (malformed status change), as claimed: a call whose changelog has a
\* status change without a usable toValue ends with MalformedChangelogEntry.
C3_RejectsMissingToValue ==
    (pc = "done" /\ ~UsableToValues) => outcome = "MalformedChangelogEntry"

\* C4 (per-status accumulation): for an ascending changelog whose status
\* changes all carry a toValue, the value returned for each status is the
\* total length of the intervals during which it was the running status, and
\* no other key is returned.
C4_PerStatusAccumulation ==
    (pc = "done" /\ UsableToValues /\ StatusAscending)
        => /\ \A s \in DOMAIN result : s \in {Running[m] : m \in 1..Len(Running)}
           /\ \A s \in Statuses : DictGet(result, s, 0) = IntervalSum(s)

\* To Do, In Progress, To Do with three intervals of positive length.
C4_Witness ==
    /\ pc = "done"
    /\ Running = <<ToDo, "In Progress", ToDo>>
    /\ \A m \in 1..3 : IntervalLength(m) > 0
    /\ result[ToDo] = IntervalLength(1) + IntervalLength(3)

\* C5 (empty changelog): with now >= createdAt the empty changelog yields
\* exactly {"To Do": now - createdAt}.
C5_EmptyChangelog ==
    (pc = "done" /\ history = << >> /\ clock >= Instant(created_date))
        => result = (ToDo :> (clock - Instant(created_date)))

C5_Witness ==
    /\ pc = "done"
    /\ history = << >>
    /\ clock > Instant(created_date)

\* The entry without its non-status changes.
StripItem(item) == [item EXCEPT !.items = SelectSeq(@, LAMBDA c : c.field = "status")]

HasItems(item) == item.items # << >>

\* The changelog without its non-status changes and without the entries that
\* held only such changes.
StripNonStatus(h) == SelectSeq([m \in 1..Len(h) |-> StripItem(h[m])], HasItems)

\* C6 (non-status changes are ignored): the returned mapping is the one
\* returned for the changelog with every non-status change removed.
C6_NonStatusIgnored ==
    pc = "done"
        => result = calculate_time_in_status(StripNonStatus(history),
                                             created_date, clock)

\* A non-status change in an entry of its own, at an instant no status
\* change has, next to a status change.
C6_Witness ==
    /\ pc = "done"
    /\ Len(history) = 2
    /\ StatusPairs # << >>
    /\ \E m \in 1..2 :
         /\ \A c \in 1..Len(history[m].items) : history[m].items[c].field # "status"
         /\ Instant(history[m].created) # Instant(history[3 - m].created)
         /\ Instant(history[m].created) # Instant(created_date)

\* The changelog with the fromString of every status change set to f.
SetFromItem(item, f) ==
    [item EXCEPT !.items =
        [c \in 1..Len(@) |-> IF @[c].field = "status"
                             THEN [@[c] EXCEPT !.fromString = f] ELSE @[c]]]
SetFrom(h, f) == [m \in 1..Len(h) |-> SetFromItem(h[m], f)]

\* C7 (fromValue is not used): the returned mapping is the one returned for
\* the same changelog with any other fromString in its status changes; two
\* changelogs that differ only there agree with the same rewritten changelog
\* and so with each other.
C7_FromValueUnused ==
    pc = "done"
        => \A f \in Statuses \cup {None} :
             result = calculate_time_in_status(SetFrom(history, f),
                                               created_date, clock)

\* A status change whose fromString names another status than the running
\* one, after a positive elapsed time.
C7_Witness ==
    /\ pc = "done"
    /\ StatusPairs # << >>
    /\ StatusPairs[1].change.fromString = "In Progress"
    /\ IntervalLength(1) > 0
    /\ ToDo \in DOMAIN result

\* The status changes among the pairs visited so far.
VisitedStatusPairs == SelectSeq(SubSeq(Pairs, 1, k), IsStatusPair)

\* C10 (interval contiguity), as claimed: after any prefix of the changelog
\* the current interval starts where the previous one ended and the durations
\* accumulated so far sum to currentStart - createdAt.
C10_Contiguity ==
    pc = "loop"
        => /\ locals.last_timestamp =
                IF VisitedStatusPairs = << >> THEN Strptime(created_date)
                ELSE Strptime(VisitedStatusPairs[Len(VisitedStatusPairs)].item.created)
           /\ SumValues(locals.status_times)
                = Instant(locals.last_timestamp) - Instant(created_date)

KeysOf(page) == [m \in 1..Len(page) |-> page[m].key]

IsPrefix(a, b) == Len(a) <= Len(b) /\ a = SubSeq(b, 1, Len(a))

\* C9 (transport-error isolation): no transport failure ends the run; a
\* failed changelog request hands the empty changelog to the calculation;
\* the issues are requested and calculated one at a time in list order; and
\* the run ends with every issue of the fetched list requested and
\* calculated.
C9_TransportIsolation ==
    /\ [](mpc # "aborted")
    /\ []((mpc = "calculate" /\ issues[idx].key \in errors) => history = << >>)
    /\ [](/\ IsPrefix(requested, KeysOf(issues))
          /\ IsPrefix(calculated, requested)
          /\ Len(requested) - Len(calculated) = (IF mpc = "calculate" THEN 1 ELSE 0))
    /\ <>(/\ mpc = "done"
          /\ requested = KeysOf(issues)
          /\ calculated = KeysOf(issues))

\* A run over two or more issues in which one changelog request failed and
\* another succeeded, ended with all of them calculated.
C9_Witness ==
    /\ mpc = "done"
    /\ Len(issues) >= 2
    /\ errors # {}
    /\ \E m \in 1..Len(issues) : issues[m].key \notin errors
    /\ calculated = KeysOf(issues)

====
